---- MODULE Spec2Model ----
(***************************************************************************)
(* A model of the codex32 reference implementation: GF(32) arithmetic      *)
(* (field.rs), the streaming checksum engine (checksum.rs) and the         *)
(* Codex32String constructors (lib.rs).                                    *)
(*                                                                         *)
(* A char is modelled by its Unicode scalar value, a string by the         *)
(* sequence of its chars.  Rust arrays and Vecs are modelled as functions  *)
(* on 0..n-1 so that every index is the index the source uses.             *)
(***************************************************************************)
EXTENDS Integers, Sequences, FiniteSets, TLC

VARIABLES
    \* property harness over Fe (field.rs)
    a, b, c,        \* the operands
    fop,            \* the operation applied to them, "none" before any
    lhs, rhs,       \* the two sides the operation computed
    panicked,       \* TRUE once an operation has panicked
    \* wheel tests (field.rs, mod tests)
    wbase, wdiv, woff,  \* logbase, whether the wheel divides, the offset rendered
    winit, ws, wi,      \* the running element, the string pushed so far, the loop counter
    \* character conversion (field.rs)
    ch, cres,           \* the char and what from_char returned for it
    \* Codex32String constructors (lib.rs) driving a checksum engine (checksum.rs)
    s,              \* the String argument of the running call
    call,           \* "from_string", "from_unchecksummed_string", "none" before any
    pc,             \* where the call stands: "idle", "hrp", "data", "returned",
                    \* or "panicked" once the call has unwound
    name,           \* the local `name` of from_string
    checksum,       \* the local engine `checksum`
    hrp,            \* the local `hrp`
    real_string,    \* the local `real_string`
    pos,            \* how many chars the running loop has consumed
    ret,            \* what the call returned
    first,          \* the call made before this one, when this one follows it up
    \* engines fed from the zero residue (bin/correction-table.rs)
    seqU, seqV,     \* the elements fed so far to engU and to engV
    engU, engV,     \* the engines fed seqU and seqV
    engS            \* the engine fed the elementwise sum of seqU and seqV

fieldVars == <<a, b, c, fop, lhs, rhs, panicked>>
wheelVars == <<wbase, wdiv, woff, winit, ws, wi>>
charVars  == <<ch, cres>>
codexVars == <<s, call, pc, name, checksum, hrp, real_string, pos, ret, first>>
linVars   == <<seqU, seqV, engU, engV, engS>>
vars == <<fieldVars, wheelVars, charVars, codexVars, linVars>>

-----------------------------------------------------------------------------
(* Zero-based arrays *)

\* the array [x0, x1, ...] written as the tuple <<x0, x1, ...>>
Arr(t) == [i \in 0..(Len(t) - 1) |-> t[i + 1]]

\* Vec::len / array length
ALen(v) == Cardinality(DOMAIN v)

-----------------------------------------------------------------------------
(* field.rs: tables *)

LOG == Arr(<<
     0,  0,  1, 14,  2, 28, 15, 22,
     3,  5, 29, 26, 16,  7, 23, 11,
     4, 25,  6, 10, 30, 13, 27, 21,
    17, 18,  8, 19, 24,  9, 12, 20 >>)

LOG_INV == Arr(<<
     1,  2,  4,  8, 16,  9, 18, 13,
    26, 29, 19, 15, 30, 21,  3,  6,
    12, 24, 25, 27, 31, 23,  7, 14,
    28, 17, 11, 22,  5, 10, 20 >>)

CHARS_LOWER == Arr(<<
    113, 112, 122, 114, 121,  57, 120,  56,  \* q p z r y 9 x 8
    103, 102,  50, 116, 118, 100, 119,  48,  \* g f 2 t v d w 0
    115,  51, 106, 110,  53,  52, 107, 104,  \* s 3 j n 5 4 k h
     99, 101,  54, 109, 117,  97,  55, 108   \* c e 6 m u a 7 l
    >>)

CHARS_INV == Arr(<<
    -1, -1, -1, -1, -1, -1, -1, -1, -1, -1, -1, -1, -1, -1, -1, -1,
    -1, -1, -1, -1, -1, -1, -1, -1, -1, -1, -1, -1, -1, -1, -1, -1,
    -1, -1, -1, -1, -1, -1, -1, -1, -1, -1, -1, -1, -1, -1, -1, -1,
    15, -1, 10, 17, 21, 20, 26, 30,  7,  5, -1, -1, -1, -1, -1, -1,
    -1, 29, -1, 24, 13, 25,  9,  8, 23, -1, 18, 22, 31, 27, 19, -1,
     1,  0,  3, 16, 11, 28, 12, 14,  6,  4,  2, -1, -1, -1, -1, -1,
    -1, 29, -1, 24, 13, 25,  9,  8, 23, -1, 18, 22, 31, 27, 19, -1,
     1,  0,  3, 16, 11, 28, 12, 14,  6,  4,  2, -1, -1, -1, -1, -1 >>)

\* struct Fe(u8), with the invariant that the byte is in [0, 32)
Fe == 0..31

-----------------------------------------------------------------------------
(* field.rs: arithmetic *)

\* bit i of the byte x
Bit(x, i) == (x \div (2 ^ i)) % 2

\* u8 ^ u8
Xor8(x, y) ==
    LET d(i) == ((Bit(x, i) + Bit(y, i)) % 2) * (2 ^ i)
    IN  d(0) + d(1) + d(2) + d(3) + d(4) + d(5) + d(6) + d(7)

\* impl ops::Add for Fe
add(x, y) == Xor8(x, y)

\* impl ops::Sub for Fe
sub(x, y) == add(x, y)

\* a multiplication that adds the logarithms without reducing them mod 31
\* wraps around the 31-entry table at the wrong place
mul_mod32(x, y) ==
    IF x = 0 \/ y = 0
    THEN 0
    ELSE LET log1 == LOG[x]
             log2 == LOG[y]
         IN  LOG_INV[((log1 + log2) % 32) % 31]

\* impl ops::Mul for Fe
mul(x, y) ==
    IF x = 0 \/ y = 0
    THEN 0
    ELSE LET log1 == LOG[x]
             log2 == LOG[y]
         IN  LOG_INV[(log1 + log2) % 31]

\* a division without the zero-divisor arm: LOG[0] = 0 is read as a logarithm
div_unguarded(x, y) ==
    IF x = 0
    THEN [panic |-> FALSE, fe |-> 0]
    ELSE LET log1 == LOG[x]
             log2 == LOG[y]
         IN  [panic |-> FALSE, fe |-> LOG_INV[(31 + log1 - log2) % 31]]

\* a division that subtracts the logarithms the wrong way round
div_swapped(x, y) ==
    IF x = 0
    THEN [panic |-> FALSE, fe |-> 0]
    ELSE IF y = 0
    THEN [panic |-> TRUE, fe |-> 0]
    ELSE LET log1 == LOG[x]
             log2 == LOG[y]
         IN  [panic |-> FALSE, fe |-> LOG_INV[(31 + log2 - log1) % 31]]

\* impl ops::Div for Fe: panic is TRUE when the call panics and returns nothing
div(x, y) ==
    IF x = 0
    THEN [panic |-> FALSE, fe |-> 0]
    ELSE IF y = 0
    THEN [panic |-> TRUE, fe |-> 0]
    ELSE LET log1 == LOG[x]
             log2 == LOG[y]
         IN  [panic |-> FALSE, fe |-> LOG_INV[(31 + log1 - log2) % 31]]

-----------------------------------------------------------------------------
(* field.rs: character conversions *)

\* char::to_ascii_lowercase (std)
to_ascii_lowercase(x) == IF x >= 65 /\ x <= 90 THEN x + 32 ELSE x

\* char::to_ascii_uppercase
to_ascii_uppercase(x) == IF x >= 97 /\ x <= 122 THEN x - 32 ELSE x

\* char::is_ascii
is_ascii(x) == x <= 127

\* char::is_ascii_lowercase
is_ascii_lowercase(x) == x >= 97 /\ x <= 122

\* the result of a conversion to Fe: Ok(Fe(fe)), or Err(err(arg))
FeOk(v) == [ok |-> TRUE, fe |-> v, err |-> "none", arg |-> 0]
FeErr(e, x) == [ok |-> FALSE, fe |-> 0, err |-> e, arg |-> x]

\* a from_char that casts the table entry with `as u8` instead of converting it:
\* the sentinel -1 becomes the byte 255
from_char_cast(x) ==
    IF x > 127
    THEN FeErr("InvalidChar", x)
    ELSE LET byte == x
             u5 == CHARS_INV[byte]
         IN  FeOk(IF u5 < 0 THEN u5 + 256 ELSE u5)

\* Fe::from_char
from_char(x) ==
    IF x > 127
    THEN FeErr("InvalidChar", x)        \* i8::try_from(u32::from(c)) fails
    ELSE LET byte == x
             u5 == CHARS_INV[byte]
         IN  IF u5 < 0
             THEN FeErr("InvalidChar", x)   \* u8::try_from(i8) fails
             ELSE FeOk(u5)

\* Fe::from_int, for an argument of type u32
from_int(i) ==
    IF i > 255
    THEN FeErr("NotAByte", i)
    ELSE IF i < 32
    THEN FeOk(i)
    ELSE FeErr("InvalidByte", i)

\* Fe::to_char
to_char(x) == CHARS_LOWER[x]

-----------------------------------------------------------------------------
(* Named elements of the field: Fe::Q is the element rendered 'q', and so  *)
(* on through the alphabet qpzry9x8gf2tvdw0s3jn54khce6mua7l.               *)

Fe_Q == 0
Fe_P == 1
Fe_R == 3
Fe_Y == 4
Fe_9 == 5
Fe_X == 6
Fe_G == 8
Fe_F == 9
Fe_2 == 10
Fe_T == 11
Fe_0 == 15
Fe_S == 16
Fe_3 == 17
Fe_4 == 21
Fe_K == 22
Fe_H == 23
Fe_C == 24
Fe_E == 25
Fe_6 == 26
Fe_M == 27
Fe_A == 29
Fe_L == 31

-----------------------------------------------------------------------------
(* lib.rs: enum Error.  NoError stands for the Ok(()) of a Result<(), Error> *)

NoError == [kind |-> "none"]
InvalidLength(n) == [kind |-> "InvalidLength", n |-> n]
InvalidChar(x) == [kind |-> "InvalidChar", c |-> x]
InvalidCase(case, x) == [kind |-> "InvalidCase", case |-> case, c |-> x]
InvalidChecksum(cs, str) == [kind |-> "InvalidChecksum", checksum |-> cs, string |-> str]
\* impl From<field::Error> for Error
Field(e) == [kind |-> "Field", e |-> e]

-----------------------------------------------------------------------------
(* checksum.rs: struct Engine *)

\* Engine::new_codex32_short
new_codex32_short ==
    [ case |-> "None",
      generator |-> Arr(<<
          Fe_S, Fe_S, Fe_C, Fe_M, Fe_L, Fe_E,
          Fe_E, Fe_E, Fe_Q, Fe_G, Fe_3, Fe_M >>),
      residue |-> Arr(<<
          Fe_Q, Fe_Q, Fe_Q, Fe_Q, Fe_Q, Fe_Q,
          Fe_Q, Fe_Q, Fe_Q, Fe_Q, Fe_Q, Fe_Q,
          Fe_P >>),
      target |-> Arr(<<
          Fe_S, Fe_E, Fe_C, Fe_R, Fe_E, Fe_T,
          Fe_S, Fe_H, Fe_A, Fe_R, Fe_E, Fe_3,
          Fe_2 >>) ]

\* a long engine built with the residue of the short one, one coefficient
\* shorter than its generator
new_codex32_long_short_residue ==
    [ case |-> "None",
      generator |-> Arr(<<
          Fe_H, Fe_Y, Fe_K, Fe_9, Fe_X, Fe_4,
          Fe_H, Fe_X, Fe_4, Fe_E, Fe_F, Fe_6,
          Fe_2, Fe_0 >>),
      residue |-> new_codex32_short.residue,
      target |-> Arr(<<
          Fe_S, Fe_E, Fe_C, Fe_R, Fe_E, Fe_T,
          Fe_S, Fe_H, Fe_A, Fe_R, Fe_E, Fe_3,
          Fe_2, Fe_E, Fe_X >>) ]

\* Engine::new_codex32_long
new_codex32_long ==
    [ case |-> "None",
      generator |-> Arr(<<
          Fe_H, Fe_Y, Fe_K, Fe_9, Fe_X, Fe_4,
          Fe_H, Fe_X, Fe_4, Fe_E, Fe_F, Fe_6,
          Fe_2, Fe_0 >>),
      residue |-> Arr(<<
          Fe_Q, Fe_Q, Fe_Q, Fe_Q, Fe_Q, Fe_Q,
          Fe_Q, Fe_Q, Fe_Q, Fe_Q, Fe_Q, Fe_Q,
          Fe_Q, Fe_Q, Fe_P >>),
      target |-> Arr(<<
          Fe_S, Fe_E, Fe_C, Fe_R, Fe_E, Fe_T,
          Fe_S, Fe_H, Fe_A, Fe_R, Fe_E, Fe_3,
          Fe_2, Fe_E, Fe_X >>) ]

\* Engine::into_residue
into_residue(eng) == eng.residue

\* Engine::is_valid
is_valid(eng) == eng.residue = eng.target

\* Engine::force_residue_to_zero: every coefficient of the residue set to Q
force_residue_to_zero(eng) ==
    [eng EXCEPT !.residue = [k \in DOMAIN eng.residue |-> Fe_Q]]

\* a set_check_case that adopts the case of the char in hand instead of
\* reporting the mismatch
set_check_case_adopts(eng, x) ==
    IF ~is_ascii(x)
    THEN [eng |-> eng, err |-> InvalidChar(x)]
    ELSE LET is_lower == is_ascii_lowercase(x)
         IN  [eng |-> [eng EXCEPT !.case = IF is_lower THEN "Lower" ELSE "Upper"],
              err |-> NoError]

\* Engine::set_check_case: the engine it leaves and the Result it returns
set_check_case(eng, x) ==
    IF ~is_ascii(x)
    THEN [eng |-> eng, err |-> InvalidChar(x)]
    ELSE LET is_lower == is_ascii_lowercase(x)
         IN  CASE (eng.case = "Lower" /\ is_lower) \/ (eng.case = "Upper" /\ ~is_lower) ->
                    [eng |-> eng, err |-> NoError]
               [] (eng.case = "Lower" /\ ~is_lower) \/ (eng.case = "Upper" /\ is_lower) ->
                    [eng |-> eng, err |-> InvalidCase(eng.case, x)]
               [] eng.case = "None" /\ is_lower ->
                    [eng |-> [eng EXCEPT !.case = "Lower"], err |-> NoError]
               [] eng.case = "None" /\ ~is_lower ->
                    [eng |-> [eng EXCEPT !.case = "Upper"], err |-> NoError]

\* for i in lo..hi { residue[i + 1] = residue[i]; }, the assignments made one
\* after the other in ascending i
RECURSIVE ShiftLoop(_, _, _)
ShiftLoop(residue, lo, hi) ==
    IF lo >= hi
    THEN residue
    ELSE ShiftLoop([residue EXCEPT ![lo + 1] = residue[lo]], lo + 1, hi)

\* for (i, ch) in generator.iter().enumerate() { residue[i] += *ch * xn; }
RECURSIVE ReduceLoop(_, _, _, _)
ReduceLoop(residue, generator, xn, k) ==
    IF k >= ALen(generator)
    THEN residue
    ELSE ReduceLoop([residue EXCEPT ![k] = add(residue[k], mul(generator[k], xn))],
                    generator, xn, k + 1)

\* an input_fe that forgets to store the new element in residue[0]
input_fe_drops_input(eng, e) ==
    LET res_len == ALen(eng.residue)
        xn == eng.residue[res_len - 1]
        shifted == ShiftLoop(eng.residue, 0, res_len - 1)
    IN  [eng EXCEPT !.residue = ReduceLoop(shifted, eng.generator, xn, 0)]

\* Engine::input_fe
input_fe(eng, e) ==
    LET res_len == ALen(eng.residue)
        xn == eng.residue[res_len - 1]
        shifted == ShiftLoop(eng.residue, 0, res_len - 1)
        loaded == [shifted EXCEPT ![0] = e]
    IN  [eng EXCEPT !.residue = ReduceLoop(loaded, eng.generator, xn, 0)]

\* Engine::input_hrp, the body of its loop for one char of the HRP
input_hrp_char(eng, x) ==
    LET checked == set_check_case(eng, x)
    IN  IF checked.err # NoError
        THEN checked
        ELSE LET hi == from_int(x \div 32)       \* u32::from(ch) >> 5
             IN  IF ~hi.ok
                 THEN [eng |-> checked.eng, err |-> Field(hi)]
                 ELSE LET e1 == input_fe(checked.eng, hi.fe)
                          e2 == input_fe(e1, Fe_Q)
                          lo == from_int(x % 32)  \* u32::from(ch) & 0x1f
                      IN  IF ~lo.ok
                          THEN [eng |-> e2, err |-> Field(lo)]
                          ELSE [eng |-> input_fe(e2, lo.fe), err |-> NoError]

\* Engine::input_char
input_char(eng, x) ==
    LET checked == set_check_case(eng, x)
    IN  IF checked.err # NoError
        THEN checked
        ELSE LET e == from_char(x)
             IN  IF ~e.ok
                 THEN [eng |-> checked.eng, err |-> Field(e)]
                 ELSE [eng |-> input_fe(checked.eng, e.fe), err |-> NoError]

\* Fe * Fe panics when an operand indexes LOG out of bounds
mul_panics(x, y) == x # 0 /\ y # 0 /\ (x \notin DOMAIN LOG \/ y \notin DOMAIN LOG)

\* Engine::input_fe panics: residue[res_len - 1] needs a non-empty residue,
\* residue[i] under the generator needs the residue as long as the generator,
\* and the products need their operands inside LOG
input_fe_panics(eng) ==
    LET res_len == ALen(eng.residue)
    IN  \/ res_len = 0
        \/ ALen(eng.generator) > res_len
        \/ \E k \in DOMAIN eng.generator :
               mul_panics(eng.generator[k], eng.residue[res_len - 1])

\* Engine::input_hrp panics on this char: the char gets as far as input_fe
\* and input_fe panics
input_hrp_char_panics(eng, x) ==
    /\ set_check_case(eng, x).err = NoError
    /\ from_int(x \div 32).ok
    /\ input_fe_panics(eng)

\* Engine::input_char panics on this char
input_char_panics(eng, x) ==
    /\ set_check_case(eng, x).err = NoError
    /\ from_char(x).ok
    /\ input_fe_panics(eng)

\* Fe::to_char panics on some coefficient: CHARS_LOWER indexed out of bounds
residue_chars_panics(residue) ==
    \E k \in DOMAIN residue : residue[k] \notin DOMAIN CHARS_LOWER

-----------------------------------------------------------------------------
(* lib.rs: strings *)

\* char::len_utf8
len_utf8(x) == IF x < 128 THEN 1 ELSE IF x < 2048 THEN 2 ELSE IF x < 65536 THEN 3 ELSE 4

\* String::len, the length in bytes: the sum of len_utf8 over the chars, each
\* char counted once and once more for every threshold of len_utf8 it reaches
len(str) ==
    LET over(t) == Cardinality({k \in 1..Len(str) : str[k] >= t})
    IN  Len(str) + over(128) + over(2048) + over(65536)

\* str::rsplit_once('1'): None, or Some((s1, s2)) around the rightmost '1'
rsplit_once(str) ==
    LET at == {k \in 1..Len(str) : str[k] = 49}
    IN  IF at = {}
        THEN [some |-> FALSE, s1 |-> <<>>, s2 |-> <<>>]
        ELSE LET k == CHOOSE m \in at : \A n \in at : n <= m
             IN  [some |-> TRUE, s1 |-> SubSeq(str, 1, k - 1), s2 |-> SubSeq(str, k + 1, Len(str))]

\* let (hrp, real_string) = match s.rsplit_once('1') { ... }
split_hrp(str) ==
    LET found == rsplit_once(str)
    IN  IF found.some
        THEN [hrp |-> found.s1, real_string |-> found.s2]
        ELSE [hrp |-> <<>>, real_string |-> str]

\* Result<Codex32String, Error>; NoRet while the call is running
Ok(str) == [ok |-> TRUE, string |-> str, err |-> NoError]
Err(e) == [ok |-> FALSE, string |-> <<>>, err |-> e]
NoRet == [ok |-> FALSE, string |-> <<>>, err |-> NoError]

\* the chars pushed by: for ch in checksum.into_residue() { s.push(ch.to_char()); }
residue_chars(residue) == [k \in 1..ALen(residue) |-> to_char(residue[k - 1])]

-----------------------------------------------------------------------------
(* Property harness over Fe: the operands are drawn in Init, each action   *)
(* evaluates the two sides of one law with the operators above.            *)

FieldIdle ==
    /\ a = 0 /\ b = 0 /\ c = 0
    /\ fop = "none" /\ lhs = 0 /\ rhs = 0 /\ panicked = FALSE

WheelIdle ==
    /\ wbase = 0 /\ wdiv = FALSE /\ woff = 0
    /\ winit = 0 /\ ws = <<>> /\ wi = 0

CharIdle ==
    /\ ch = 0 /\ cres = FeErr("none", 0)

NoFirst == [how |-> "none"]

CodexIdle ==
    /\ s = <<>> /\ call = "none" /\ pc = "idle"
    /\ name = "" /\ checksum = new_codex32_short
    /\ hrp = <<>> /\ real_string = <<>> /\ pos = 0
    /\ ret = NoRet /\ first = NoFirst

LinIdle ==
    /\ seqU = <<>> /\ seqV = <<>>
    /\ engU = new_codex32_short /\ engV = new_codex32_short /\ engS = new_codex32_short

InitField ==
    /\ a \in Fe /\ b \in Fe /\ c \in Fe
    /\ fop = "none" /\ lhs = 0 /\ rhs = 0 /\ panicked = FALSE
    /\ WheelIdle /\ CharIdle /\ CodexIdle /\ LinIdle

\* both sides are plain multiplications and additions: none of them panics
Evaluate(op, l, r) ==
    /\ fop' = op
    /\ lhs' = l
    /\ rhs' = r
    /\ UNCHANGED <<a, b, c, panicked, wheelVars, charVars, codexVars, linVars>>

\* one side goes through a division q: the panic unwinds before lhs is written
EvaluateDiv(op, q, l, r) ==
    /\ fop' = op
    /\ IF q.panic
       THEN panicked' = TRUE /\ UNCHANGED <<lhs, rhs>>
       ELSE lhs' = l /\ rhs' = r /\ UNCHANGED panicked
    /\ UNCHANGED <<a, b, c, wheelVars, charVars, codexVars, linVars>>

MulCommutes ==
    /\ fop = "none"
    /\ Evaluate("commute", mul(a, b), mul(b, a))

MulAssociates ==
    /\ fop = "none"
    /\ Evaluate("assoc", mul(mul(a, b), c), mul(a, mul(b, c)))

MulDistributes ==
    /\ fop = "none"
    /\ Evaluate("distrib", mul(a, add(b, c)), add(mul(a, b), mul(a, c)))

DivInverse ==
    /\ fop = "none"
    /\ LET q == div(Fe_P, a)
       IN  EvaluateDiv("inverse", q, mul(a, q.fe), Fe_P)

DivSelf ==
    /\ fop = "none"
    /\ LET q == div(a, a)
       IN  EvaluateDiv("self", q, q.fe, Fe_P)

DivByZero ==
    /\ fop = "none"
    /\ LET q == div(a, Fe_Q)
       IN  EvaluateDiv("byzero", q, q.fe, q.fe)

NextField ==
    \/ MulCommutes
    \/ MulAssociates
    \/ MulDistributes
    \/ DivInverse
    \/ DivSelf
    \/ DivByZero

SpecField == InitField /\ [][NextField]_vars

\* C6: for all non-zero a, b, c the table multiplication is commutative and
\* associative, and distributes over the XOR addition.
C6_MulFieldLaws ==
    (fop \in {"commute", "assoc", "distrib"} /\ a # Fe_Q /\ b # Fe_Q /\ c # Fe_Q)
        => (~panicked /\ lhs = rhs)

\* the distributive law has been evaluated on non-zero operands with b + c
\* non-zero, and both sides are the same non-zero element
C6_Witness ==
    /\ fop = "distrib" /\ a = 20 /\ b = 10 /\ c = 16
    /\ lhs = rhs /\ lhs # Fe_Q

\* C7: for every non-zero a, a * (P / a) = P and a / a = P, and neither
\* division panics.
C7_DivInvertsMul ==
    (fop \in {"inverse", "self"} /\ a # Fe_Q) => (~panicked /\ lhs = Fe_P /\ rhs = Fe_P)

\* a * (P / a) has been evaluated for an a other than Q and P
C7_Witness ==
    /\ fop = "inverse" /\ a = 20 /\ ~panicked /\ lhs = Fe_P

\* C10: for every non-zero a, a / Q panics: the division returns no field
\* element (neither side of the harness is written).
C10_DivByZeroPanics ==
    (fop = "byzero" /\ a # Fe_Q) => (panicked /\ lhs = 0 /\ rhs = 0)

\* a non-zero element has been divided by Q and the division panicked
C10_Witness ==
    /\ fop = "byzero" /\ a = 5 /\ panicked

-----------------------------------------------------------------------------
(* field.rs, mod tests: the wheels.  Each test starts from Fe(1) and, 31   *)
(* times, pushes the rendering of init (plus an offset for the recovery    *)
(* wheel) and multiplies or divides init by the logbase.                   *)

LogBaseTranslation == 20
LogBaseRecovery == 10
RecoveryOffset == 16
WheelLen == 31

InitWheel ==
    /\ wbase \in {LogBaseTranslation, LogBaseRecovery}
    /\ wdiv \in BOOLEAN
    /\ woff \in {Fe_Q, RecoveryOffset}
    /\ winit = 1 /\ ws = <<>> /\ wi = 0
    /\ FieldIdle /\ CharIdle /\ CodexIdle /\ LinIdle

\* for _ in 0..31 { s.push((init + off).to_char()); init *= logbase; }
WheelMulStep ==
    /\ ~wdiv /\ wi < WheelLen /\ ~panicked
    /\ ws' = Append(ws, to_char(add(winit, woff)))
    /\ winit' = mul(winit, wbase)
    /\ wi' = wi + 1
    /\ UNCHANGED <<wbase, wdiv, woff, fieldVars, charVars, codexVars, linVars>>

\* for _ in 0..31 { s.push((init + off).to_char()); init /= logbase; }
WheelDivStep ==
    /\ wdiv /\ wi < WheelLen /\ ~panicked
    /\ ws' = Append(ws, to_char(add(winit, woff)))
    /\ LET q == div(winit, wbase)
       IN  IF q.panic
           THEN panicked' = TRUE /\ UNCHANGED winit
           ELSE winit' = q.fe /\ UNCHANGED panicked
    /\ wi' = wi + 1
    /\ UNCHANGED <<wbase, wdiv, woff, a, b, c, fop, lhs, rhs, charVars, codexVars, linVars>>

NextWheel ==
    \/ WheelMulStep
    \/ WheelDivStep

SpecWheel == InitWheel /\ [][NextWheel]_vars

\* "p529kt3uw8hlmecvxr470na6djfsgyz"
TranslationWheel ==
    <<112, 53, 50, 57, 107, 116, 51, 117, 119, 56, 104, 108, 109, 101, 99, 118,
      120, 114, 52, 55, 48, 110, 97, 54, 100, 106, 102, 115, 103, 121, 122>>

\* "pzygsfjd6an074rxvcemlh8wu3tk925"
TranslationWheelReversed ==
    <<112, 122, 121, 103, 115, 102, 106, 100, 54, 97, 110, 48, 55, 52, 114, 120,
      118, 99, 101, 109, 108, 104, 56, 119, 117, 51, 116, 107, 57, 50, 53>>

\* "36xp78tgk9ldaecjy4mvh0funwr2zq5"
RecoveryWheel ==
    <<51, 54, 120, 112, 55, 56, 116, 103, 107, 57, 108, 100, 97, 101, 99, 106,
      121, 52, 109, 118, 104, 48, 102, 117, 110, 119, 114, 50, 122, 113, 53>>

\* the characters of the non-zero elements
NonZeroChars == {to_char(e) : e \in Fe \ {Fe_Q}}

\* C8: after the 31 steps, multiplying P by Fe(20) has rendered
\* p529kt3uw8hlmecvxr470na6djfsgyz and visited every non-zero element exactly
\* once, dividing by Fe(20) has rendered the same cycle backwards from p, and
\* multiplying by Fe(10) while rendering init + Fe(16) has rendered
\* 36xp78tgk9ldaecjy4mvh0funwr2zq5.
C8_GoldenWheels ==
    (wi = WheelLen) =>
        /\ ~panicked
        /\ (wbase = LogBaseTranslation /\ ~wdiv /\ woff = Fe_Q) =>
                /\ ws = TranslationWheel
                /\ {ws[i] : i \in 1..Len(ws)} = NonZeroChars
                /\ winit = Fe_P
        /\ (wbase = LogBaseTranslation /\ wdiv /\ woff = Fe_Q) =>
                /\ ws = TranslationWheelReversed
                /\ \A i \in 2..WheelLen : ws[i] = TranslationWheel[WheelLen + 2 - i]
        /\ (wbase = LogBaseRecovery /\ ~wdiv /\ woff = RecoveryOffset) =>
                ws = RecoveryWheel

\* the dividing translation wheel has completed its 31 steps
C8_Witness ==
    /\ wi = WheelLen /\ wbase = LogBaseTranslation /\ wdiv /\ woff = Fe_Q
    /\ ws = TranslationWheelReversed

-----------------------------------------------------------------------------
(* Fe::from_char applied to one char.  The chars are the scalar values up  *)
(* to MaxChar: all of ASCII and some of what lies beyond it.               *)

MaxChar == 300

InitChar ==
    /\ ch \in 0..MaxChar
    /\ cres = FeErr("none", 0)
    /\ FieldIdle /\ WheelIdle /\ CodexIdle /\ LinIdle

FromChar ==
    /\ cres = FeErr("none", 0)
    /\ cres' = from_char(ch)
    /\ UNCHANGED <<ch, fieldVars, wheelVars, codexVars, linVars>>

NextChar == FromChar

SpecChar == InitChar /\ [][NextChar]_vars

\* the bech32 alphabet in either case
Bech32Chars ==
    {CHARS_LOWER[i] : i \in 0..31} \cup {to_ascii_uppercase(CHARS_LOWER[i]) : i \in 0..31}

\* C9: from_char succeeds exactly on the bech32 alphabet in either case;
\* where it succeeds, the element renders (to_char) as the lowercased char, and
\* where it fails the error is InvalidChar(c).
C9_FromCharRoundTrip ==
    (cres # FeErr("none", 0)) =>
        /\ cres.ok <=> ch \in Bech32Chars
        /\ cres.ok =>
              /\ cres.fe \in Fe
              /\ to_ascii_lowercase(to_char(cres.fe)) = to_ascii_lowercase(ch)
        /\ ~cres.ok => (cres.err = "InvalidChar" /\ cres.arg = ch)

\* from_char has decoded the uppercase letter 'L' as Fe(31)
C9_Witness ==
    /\ ch = 76 /\ cres = FeOk(31)

-----------------------------------------------------------------------------
(* lib.rs: the two constructors of Codex32String.  A call runs in steps:   *)
(* its entry (the length dispatch and the split), one step per iteration   *)
(* of the loops of input_hrp and input_data_str, and its return.  A        *)
(* finished call may be followed up by from_string on its result, or on    *)
(* its argument with one data char replaced.                               *)

\* the chars of the short input strings: q p Q 2 1 b and the euro sign, a
\* char of three bytes whose scalar value shifted right by 5 exceeds a byte
Alphabet == {113, 112, 81, 50, 49, 98, 8364}

\* the longest string drawn in full from Alphabet
MaxLen == 3

\* the longest head of a string padded with 'q' up to a length of LongLens
MaxHead == 1

\* the lengths on both sides of the length tests of lib.rs
LongLens == {80, 81, 93, 94, 95, 96, 124, 125}

StringsUpTo(n) == UNION {[1..k -> Alphabet] : k \in 0..n}

Padded(head, n) == head \o [k \in 1..(n - Len(head)) |-> 113]

Inputs ==
    StringsUpTo(MaxLen) \cup {Padded(h, n) : h \in StringsUpTo(MaxHead), n \in LongLens}

Init ==
    /\ s \in Inputs
    /\ call = "none" /\ pc = "idle"
    /\ name = "" /\ checksum = new_codex32_short
    /\ hrp = <<>> /\ real_string = <<>> /\ pos = 0
    /\ ret = NoRet /\ first = NoFirst
    /\ FieldIdle /\ WheelIdle /\ CharIdle /\ LinIdle

\* the locals once the engine is chosen and the HRP split out
Feed(nm, eng, str) ==
    LET parts == split_hrp(str)
    IN  /\ name' = nm
        /\ checksum' = eng
        /\ hrp' = parts.hrp
        /\ real_string' = parts.real_string
        /\ pos' = 0
        /\ pc' = "hrp"
        /\ ret' = NoRet

\* from_string, from its entry to the call of input_hrp
Enter_from_string(str) ==
    IF len(str) > 0 /\ len(str) < 94
    THEN Feed("short", new_codex32_short, str)
    ELSE IF len(str) > 95 /\ len(str) < 125
    THEN Feed("long", new_codex32_long, str)
    ELSE /\ ret' = Err(InvalidLength(len(str)))
         /\ pc' = "returned"
         /\ UNCHANGED <<name, checksum, hrp, real_string, pos>>

\* from_unchecksummed_string, from its entry to the call of input_hrp
Enter_from_unchecksummed_string(str) ==
    IF len(str) < 81
    THEN Feed("", new_codex32_short, str)
    ELSE Feed("", new_codex32_short, str)

CallFromString ==
    /\ pc = "idle"
    /\ call' = "from_string"
    /\ Enter_from_string(s)
    /\ UNCHANGED <<s, first, fieldVars, wheelVars, charVars, linVars>>

CallFromUnchecksummedString ==
    /\ pc = "idle"
    /\ call' = "from_unchecksummed_string"
    /\ Enter_from_unchecksummed_string(s)
    /\ UNCHANGED <<s, first, fieldVars, wheelVars, charVars, linVars>>

\* one iteration of: for ch in hrp.chars() { ... }
HrpStep ==
    /\ pc = "hrp" /\ pos < Len(hrp)
    /\ IF input_hrp_char_panics(checksum, hrp[pos + 1])
       THEN pc' = "panicked" /\ UNCHANGED <<checksum, pos, ret>>
       ELSE LET r == input_hrp_char(checksum, hrp[pos + 1])
            IN  /\ checksum' = r.eng
                /\ IF r.err # NoError
                   THEN pc' = "returned" /\ ret' = Err(r.err) /\ UNCHANGED pos
                   ELSE pos' = pos + 1 /\ UNCHANGED <<pc, ret>>
    /\ UNCHANGED <<s, call, name, hrp, real_string, first, fieldVars, wheelVars, charVars, linVars>>

\* input_hrp returns Ok(()) and input_data_str is called
HrpEnd ==
    /\ pc = "hrp" /\ pos = Len(hrp)
    /\ pc' = "data"
    /\ pos' = 0
    /\ UNCHANGED <<s, call, name, checksum, hrp, real_string, ret, first,
                   fieldVars, wheelVars, charVars, linVars>>

\* one iteration of: for ch in s.chars() { self.input_char(ch)?; }
DataStep ==
    /\ pc = "data" /\ pos < Len(real_string)
    /\ IF input_char_panics(checksum, real_string[pos + 1])
       THEN pc' = "panicked" /\ UNCHANGED <<checksum, pos, ret>>
       ELSE LET r == input_char(checksum, real_string[pos + 1])
            IN  /\ checksum' = r.eng
                /\ IF r.err # NoError
                   THEN pc' = "returned" /\ ret' = Err(r.err) /\ UNCHANGED pos
                   ELSE pos' = pos + 1 /\ UNCHANGED <<pc, ret>>
    /\ UNCHANGED <<s, call, name, hrp, real_string, first, fieldVars, wheelVars, charVars, linVars>>

\* from_string, after input_data_str has returned Ok(())
Validate ==
    /\ pc = "data" /\ pos = Len(real_string)
    /\ call = "from_string"
    /\ pc' = "returned"
    /\ ret' = IF ~is_valid(checksum) THEN Err(InvalidChecksum(name, s)) ELSE Ok(s)
    /\ UNCHANGED <<s, call, name, checksum, hrp, real_string, pos, first,
                   fieldVars, wheelVars, charVars, linVars>>

\* from_unchecksummed_string, after input_data_str has returned Ok(())
AppendChecksum ==
    /\ pc = "data" /\ pos = Len(real_string)
    /\ call = "from_unchecksummed_string"
    /\ IF residue_chars_panics(into_residue(checksum))
       THEN pc' = "panicked" /\ UNCHANGED <<s, ret>>
       ELSE /\ pc' = "returned"
            /\ s' = s \o residue_chars(into_residue(checksum))
            /\ ret' = Ok(s')
    /\ UNCHANGED <<call, name, checksum, hrp, real_string, pos, first,
                   fieldVars, wheelVars, charVars, linVars>>

\* what a follow-up call keeps of the call before it
Before(how, p, x) ==
    [how |-> how, call |-> call, s |-> s, ret |-> ret,
     residue |-> checksum.residue, p |-> p, c |-> x]

\* from_string on the string from_unchecksummed_string returned
RoundTrip ==
    /\ pc = "returned" /\ first = NoFirst
    /\ call = "from_unchecksummed_string" /\ ret.ok
    /\ first' = Before("roundtrip", 0, 0)
    /\ s' = ret.string
    /\ call' = "from_string"
    /\ Enter_from_string(ret.string)
    /\ UNCHANGED <<fieldVars, wheelVars, charVars, linVars>>

\* char::is_ascii_alphabetic
is_ascii_alphabetic(x) == (x >= 65 /\ x <= 90) \/ (x >= 97 /\ x <= 122)

\* x is a digit, or a letter of the case of the letters of str
SameCase(x, str) ==
    is_ascii_alphabetic(x) =>
        \A k \in 1..Len(str) :
            is_ascii_alphabetic(str[k]) => (is_ascii_lowercase(x) <=> is_ascii_lowercase(str[k]))

\* the replacement chars: q p 2 Q P
ReplChars == {113, 112, 50, 81, 80}

\* the data positions of str replaced: its first MaxLen, and its last
ReplPositions(str) ==
    LET d == Len(str) - Len(split_hrp(str).real_string)
    IN  {p \in (d + 1)..Len(str) : p - d <= MaxLen \/ p = Len(str)}

\* from_string on the argument of a from_string that got as far as comparing
\* the residue, with the data char at p replaced by another element's char
Replace ==
    /\ pc = "returned" /\ first = NoFirst
    /\ call = "from_string"
    /\ (ret.ok \/ ret.err.kind = "InvalidChecksum")
    /\ \E p \in ReplPositions(s), x \in ReplChars :
        /\ from_char(x).fe # from_char(s[p]).fe
        /\ SameCase(x, s)
        /\ first' = Before("replace", p, x)
        /\ s' = [s EXCEPT ![p] = x]
        /\ Enter_from_string(s')
    /\ UNCHANGED <<call, fieldVars, wheelVars, charVars, linVars>>

Next ==
    \/ CallFromString
    \/ CallFromUnchecksummedString
    \/ HrpStep
    \/ HrpEnd
    \/ DataStep
    \/ Validate
    \/ AppendChecksum
    \/ RoundTrip
    \/ Replace

Spec == Init /\ [][Next]_vars

\* the running loop is about to consume a char
Feeding ==
    \/ (pc = "hrp" /\ pos < Len(hrp))
    \/ (pc = "data" /\ pos < Len(real_string))

\* the char the running loop consumes next
CurChar == IF pc = "hrp" THEN hrp[pos + 1] ELSE real_string[pos + 1]

\* char::is_ascii_digit
is_ascii_digit(x) == x >= 48 /\ x <= 57

\* the lengths from_string is documented to admit
PermittedLength(n) == (0 < n /\ n < 94) \/ (95 < n /\ n < 125)

\* C1: when from_unchecksummed_string has returned Ok(result), from_string on
\* result's string returns Ok with exactly that string.
C1_RoundTrip ==
    (first.how = "roundtrip" /\ pc = "returned") =>
        (ret.ok /\ ret.string = first.ret.string)

\* With the ascending shift of input_fe every call of from_string that gets as
\* far as the comparison finds the residue different from the target.
FromStringNeverAccepts == ~(call = "from_string" /\ ret.ok)

C3_DigitsDoNotConstrainCase ==
    [][(Feeding /\ is_ascii_digit(CurChar)) =>
          (checksum'.case = checksum.case /\ ret'.err.kind # "InvalidCase")]_vars

\* the precondition of C4 on the argument of from_string
MixedCase(str) ==
    LET parts == split_hrp(str)
        both == parts.hrp \o parts.real_string
    IN  /\ PermittedLength(len(str))
        /\ \A k \in 1..Len(parts.hrp) : is_ascii(parts.hrp[k])
        /\ \A k \in 1..Len(parts.real_string) :
              parts.real_string[k] \in {CHARS_LOWER[e] : e \in Fe}
                  \cup {to_ascii_uppercase(CHARS_LOWER[e]) : e \in Fe}
        /\ \E k \in 1..Len(both) : both[k] >= 97 /\ both[k] <= 122
        /\ \E k \in 1..Len(both) : both[k] >= 65 /\ both[k] <= 90

\* C4: from_string on a string of permitted length, with an ASCII HRP and data
\* in the bech32 alphabet, that holds a lowercase and an uppercase letter
\* returns InvalidCase; and no char consumed changes an observed case that is
\* already set.
C4_MixedCaseRejected ==
    [][/\ (Feeding /\ checksum.case # "None") => checksum'.case = checksum.case
       /\ (pc' = "returned" /\ call' = "from_string" /\ MixedCase(s')) =>
              (~ret'.ok /\ ret'.err.kind = "InvalidCase")]_vars

\* from_string has returned InvalidCase(Upper, 'q') for "Q1q" (an uppercase HRP,
\* lowercase data), the engine still holding the case it observed first
C4_Witness ==
    /\ pc = "returned" /\ call = "from_string" /\ first = NoFirst
    /\ s = <<81, 49, 113>>
    /\ MixedCase(s)
    /\ ret = Err(InvalidCase("Upper", 113))
    /\ checksum.case = "Upper"

\* C5: a constructor that returns Ok returns a string of permitted length, and
\* from_string on a string of any other length returns InvalidLength(n).
C5_LengthBounds ==
    /\ (pc = "returned" /\ ret.ok) => PermittedLength(len(ret.string))
    /\ (pc = "returned" /\ call = "from_string" /\ ~PermittedLength(len(s))) =>
           ret = Err(InvalidLength(len(s)))

\* the guards of the steps of a running call: the next iteration of its loop,
\* or what follows the loop
CanStep ==
    \/ (pc = "hrp" /\ pos <= Len(hrp))
    \/ (pc = "data" /\ pos < Len(real_string))
    \/ (pc = "data" /\ pos = Len(real_string)
           /\ call \in {"from_string", "from_unchecksummed_string"})

\* C11: no call of from_string or from_unchecksummed_string panics, on any
\* input: the engine indexes neither a table nor the residue out of bounds, a
\* running call can always take its next step and never overruns the string it
\* consumes, a call that has returned has returned Ok or an Error, and that
\* Error never comes from Fe::from_int (NotAByte, InvalidByte), the only field
\* error returned being the InvalidChar of from_char.
C11_NoPanic ==
    /\ pc # "panicked"
    /\ pc \in {"hrp", "data"} => CanStep
    /\ pc = "returned" => (ret.ok \/ ret.err # NoError)
    /\ ret.err.kind = "Field" => ret.err.e.err = "InvalidChar"

\* from_string has taken the engine of the long variant for a string of 96
\* bytes that starts with the euro sign, and has returned InvalidChar for it
C11_Witness ==
    /\ pc = "returned" /\ first = NoFirst
    /\ call = "from_string" /\ name = "long"
    /\ s[1] = 8364 /\ len(s) = 96
    /\ ret = Err(InvalidChar(8364))

\* the residue the per-character update is stated to leave: every coefficient
\* moved up by one index, the new element stored at index 0, and the
\* generator times the old top coefficient added under the generator
PerCharUpdate(residue, generator, e) ==
    LET n == ALen(residue)
        xn == residue[n - 1]
    IN  [k \in 0..(n - 1) |->
            IF k = 0 THEN add(e, mul(generator[0], xn))
            ELSE IF k < ALen(generator) THEN add(residue[k - 1], mul(generator[k], xn))
            ELSE residue[k - 1]]

\* C12: input_fe on a residue r of n coefficients and an element e leaves
\* r'[0] = e + g[0]*xn, r'[i] = r[i-1] + g[i]*xn for 1 <= i < |g| and
\* r'[i] = r[i-1] for |g| <= i < n, with xn the old r[n-1]: the shift loses none
\* of r[0..n-2].  Stated of the input_fe that input_char makes for each data
\* char it accepts.
C12_PerCharUpdate ==
    [][(pc = "data" /\ pc' = "data" /\ pos' = pos + 1) =>
          checksum'.residue =
              PerCharUpdate(checksum.residue, checksum.generator,
                            from_char(real_string[pos + 1]).fe)]_vars

-----------------------------------------------------------------------------
(* bin/correction-table.rs: engines whose residue was forced to zero, fed  *)
(* element by element as the scan loops of main feed theirs.  Three        *)
(* engines run side by side: one is fed u, one v, one the sum u + v.       *)

\* the elements fed: Q P S L
FedElems == {Fe_Q, Fe_P, Fe_S, Fe_L}

\* the longest sequence fed
MaxFeed == 3

\* let mut engine = ChecksumEngine::new_codex32_short();
\* engine.force_residue_to_zero();  and the same for the long engine
InitLinear ==
    /\ seqU = <<>> /\ seqV = <<>>
    /\ \E fresh \in {new_codex32_short, new_codex32_long} :
          /\ engU = force_residue_to_zero(fresh)
          /\ engV = force_residue_to_zero(fresh)
          /\ engS = force_residue_to_zero(fresh)
    /\ FieldIdle /\ WheelIdle /\ CharIdle /\ CodexIdle

\* engine.input_fe(err) / engine.input_fe(Fe::Q), on each of the three engines
InputFe ==
    /\ Len(seqU) < MaxFeed
    /\ \E x \in FedElems, y \in FedElems :
          /\ seqU' = Append(seqU, x)
          /\ seqV' = Append(seqV, y)
          /\ engU' = input_fe(engU, x)
          /\ engV' = input_fe(engV, y)
          /\ engS' = input_fe(engS, add(x, y))
    /\ UNCHANGED <<fieldVars, wheelVars, charVars, codexVars>>

NextLinear == InputFe

SpecLinear == InitLinear /\ [][NextLinear]_vars

\* the elementwise sum of two residues
AddResidues(r1, r2) == [k \in DOMAIN r1 |-> add(r1[k], r2[k])]

\* every element of the sequence is Q
AllQ(sq) == \A k \in 1..Len(sq) : sq[k] = Fe_Q

\* C13: from a residue forced to zero, the residue after the elementwise sum
\* of two input sequences of equal length is the elementwise sum of the
\* residues after each of them, and an input of Q only leaves the residue all Q.
C13_Linearity ==
    /\ engS.residue = AddResidues(engU.residue, engV.residue)
    /\ AllQ(seqU) => engU.residue = force_residue_to_zero(engU).residue

\* three elements fed to each engine, the two sequences different and neither
\* all Q, the three residues pairwise different and none of them zero
C13_Witness ==
    /\ Len(seqU) = 3 /\ seqU # seqV
    /\ ~AllQ(seqU) /\ ~AllQ(seqV)
    /\ engU.residue # engV.residue
    /\ engS.residue # engU.residue /\ engS.residue # engV.residue
    /\ engS.residue # force_residue_to_zero(engS).residue
    /\ engU.residue[ALen(engU.residue) - 1] # Fe_Q

====
